---- MODULE Spec2Model ----
(***************************************************************************)
(* Model of the data ingestion and cleaning pipeline of the dashboard      *)
(* (utils/io.py, load_and_clean_data) and of the top-level flow of the     *)
(* Streamlit script that consumes its result (app.py, test.py).            *)
(*                                                                         *)
(* Text is a tuple of one-character strings, so that strip, upper, the     *)
(* accent removal and the regular expression act on characters.  An       *)
(* accented character is a token such as "e_acute"; its NFD decomposition *)
(* is the base letter followed by a combining mark.  PART_ELECTRIQUE is an *)
(* exact rational [num, den] in lowest terms (floating point rounding is   *)
(* not modelled).                                                          *)
(***************************************************************************)
EXTENDS Integers, Sequences, FiniteSets, TLC

VARIABLES csv, pc, df, exc, p995, result, st_errors, app,
          widgets, sel, df_current, df_prev, kpi, df_map, df_hist, sliders,
          calls, reads, returned, ld

\* what one run of the script computes after the load
page_vars == <<sel, df_current, df_prev, kpi, df_map, df_hist, sliders>>

\* what lasts from one run of the script to the next
session_vars == <<widgets, calls, returned>>

\* the state of load_and_clean_data and of the script that calls it
script_vars == <<csv, pc, df, exc, p995, result, st_errors, app,
                 widgets, sel, df_current, df_prev, kpi, df_map, df_hist, sliders,
                 calls, reads, returned>>

vars == <<csv, pc, df, exc, p995, result, st_errors, app,
          widgets, sel, df_current, df_prev, kpi, df_map, df_hist, sliders,
          calls, reads, returned, ld>>

(***************************************************************************)
(* Bounds of the model.                                                    *)
(***************************************************************************)
\* largest number of data rows of an input file
MaxRows == 3

\* largest number of runs of the script in one session
MaxCalls == 2

(***************************************************************************)
(* Generic helpers on sequences.                                           *)
(***************************************************************************)
Range(s) == {s[i] : i \in DOMAIN s}

Drop(s, n) == SubSeq(s, n + 1, Len(s))

IsPrefix(p, s) == Len(p) <= Len(s) /\ SubSeq(s, 1, Len(p)) = p

\* df[mask]: the rows satisfying Keep, in their order
SelectRows(rows, Keep(_)) == SelectSeq(rows, Keep)

\* df[col] = f(row): every row with column col (re)assigned
SetCol(rows, col, F(_)) ==
    [i \in DOMAIN rows |->
        [k \in DOMAIN rows[i] \cup {col} |-> IF k = col THEN F(rows[i]) ELSE rows[i][k]]]

\* df.drop(columns=[col])
DropCol(rows, col) ==
    [i \in DOMAIN rows |-> [k \in DOMAIN rows[i] \ {col} |-> rows[i][k]]]

(***************************************************************************)
(* Characters and strings.                                                 *)
(***************************************************************************)
LowerLetters == <<"a","b","c","d","e","f","g","h","i","j","k","l","m",
                  "n","o","p","q","r","s","t","u","v","w","x","y","z">>
UpperLetters == <<"A","B","C","D","E","F","G","H","I","J","K","L","M",
                  "N","O","P","Q","R","S","T","U","V","W","X","Y","Z">>
DigitChars == <<"0","1","2","3","4","5","6","7","8","9">>

\* str.isspace(): the characters str.strip() removes and \s matches
IsSpace(ch) == ch \in {" ", "TAB"}

\* unicodedata.normalize("NFD", ch) for one character
NFD(ch) ==
    CASE ch = "e_acute" -> <<"e", "COMBINING_ACUTE">>
      [] ch = "E_acute" -> <<"E", "COMBINING_ACUTE">>
      [] ch = "e_grave" -> <<"e", "COMBINING_GRAVE">>
      [] ch = "E_grave" -> <<"E", "COMBINING_GRAVE">>
      [] OTHER -> <<ch>>

\* unicodedata.category(ch) == "Mn"
IsMn(ch) == ch \in {"COMBINING_ACUTE", "COMBINING_GRAVE"}

\* str.upper() for one character
UpperChar(ch) ==
    IF \E i \in DOMAIN LowerLetters : LowerLetters[i] = ch
    THEN UpperLetters[CHOOSE i \in DOMAIN LowerLetters : LowerLetters[i] = ch]
    ELSE CASE ch = "e_acute" -> "E_acute"
           [] ch = "e_grave" -> "E_grave"
           [] OTHER -> ch

RECURSIVE lstrip(_)
lstrip(s) == IF s # <<>> /\ IsSpace(Head(s)) THEN lstrip(Tail(s)) ELSE s

RECURSIVE rstrip(_)
rstrip(s) ==
    IF s # <<>> /\ IsSpace(s[Len(s)]) THEN rstrip(SubSeq(s, 1, Len(s) - 1)) ELSE s

\* str.strip()
strip(s) == rstrip(lstrip(s))

RECURSIVE NormalizeNFD(_)
NormalizeNFD(s) == IF s = <<>> THEN <<>> ELSE NFD(Head(s)) \o NormalizeNFD(Tail(s))

upper(s) == [i \in DOMAIN s |-> UpperChar(s[i])]

\* a slip of _strip_accents_upper: the accents stay
strip_accents_upper_keeps_accents(s) == upper(strip(s))

\* _strip_accents_upper on a str (None never reaches it: NaN labels are dropped)
strip_accents_upper(s) ==
    upper(SelectSeq(NormalizeNFD(strip(s)), LAMBDA ch : ~IsMn(ch)))

(***************************************************************************)
(* BANNED_REGEX, as re.fullmatch applies it.                               *)
(***************************************************************************)
\* [\s\-]
IsSepChar(ch) == IsSpace(ch) \/ ch = "-"

\* [\s\-]* before a literal that starts with a letter: the greedy match is
\* the only one that can succeed
RECURSIVE SkipSeps(_)
SkipSeps(s) == IF s # <<>> /\ IsSepChar(Head(s)) THEN SkipSeps(Tail(s)) ELSE s

\* w1 [\s\-]* w2 suffix, the whole of s
MatchTwo(s, w1, w2, suffixes) ==
    /\ IsPrefix(w1, s)
    /\ LET t == SkipSeps(Drop(s, Len(w1)))
       IN  IsPrefix(w2, t) /\ Drop(t, Len(w2)) \in suffixes

\* w suffix, the whole of s
MatchOne(s, w, suffixes) == IsPrefix(w, s) /\ Drop(s, Len(w)) \in suffixes

OptS == {<<>>, <<"S">>}
OptES == {<<>>, <<"E">>, <<"S">>, <<"E","S">>}

\* a slip of the match: the pattern is searched for anywhere in the label
BANNED_REGEX_search(s) ==
    \E a \in 1..Len(s) : \E b \in a..Len(s) :
        LET t == SubSeq(s, a, b)
        IN  \/ t \in {<<"F","O","R","A","I","N">>, <<"I","N","C","O","N","N","U">>,
                      <<"N","D">>}
            \/ /\ IsPrefix(<<"N","O","N">>, t)
               /\ \E w \in {<<"I","D","E","N","T","I","F","I","E">>,
                             <<"D","E","F","I","N","I">>,
                             <<"R","E","N","S","E","I","G","N","E">>} :
                      SkipSeps(Drop(t, 3)) = w
            \/ /\ IsPrefix(<<"S","A","N","S">>, t)
               /\ \E w \in {<<"L","I","B","E","L","L","E">>, <<"O","B","J","E","T">>} :
                      SkipSeps(Drop(t, 4)) = w

BANNED_REGEX_fullmatch(s) ==
    \/ MatchOne(s, <<"F","O","R","A","I","N">>, OptS)
    \/ MatchTwo(s, <<"N","O","N">>, <<"I","D","E","N","T","I","F","I">>,
                {<<"E">>, <<"E","E">>, <<"E","S">>, <<"E","E","S">>})
    \/ MatchTwo(s, <<"N","O","N">>, <<"D","E","F","I","N","I">>, OptES)
    \/ MatchTwo(s, <<"N","O","N">>, <<"R","E","N","S","E","I","G","N","E">>, OptES)
    \/ MatchOne(s, <<"I","N","C","O","N","N","U">>, OptS)
    \/ MatchTwo(s, <<"S","A","N","S">>, <<"L","I","B","E","L","L","E">>, OptS)
    \/ MatchTwo(s, <<"S","A","N","S">>, <<"O","B","J","E","T">>, {<<>>})
    \/ MatchTwo(s, <<"P","A","R","I","S">>, <<"N","D">>, {<<>>})
    \/ s = <<"N","D">>

\* mask_valid of one row
mask_valid(norm) ==
    /\ Len(norm) > 0
    /\ norm \notin {<<"N","A">>, <<"N","A","N">>, <<"N","O","N","E">>}
    /\ ~BANNED_REGEX_fullmatch(norm)

(***************************************************************************)
(* get_departement_code                                                    *)
(***************************************************************************)
get_departement_code(codgeo) ==
    IF IsPrefix(<<"2","A">>, codgeo) \/ IsPrefix(<<"2","B">>, codgeo)
    THEN SubSeq(codgeo, 1, IF Len(codgeo) < 2 THEN Len(codgeo) ELSE 2)
    ELSE SubSeq(codgeo, 1, IF Len(codgeo) < 2 THEN Len(codgeo) ELSE 2)


(***************************************************************************)
(* Numbers: NaN-able values, exact rationals, the quantile.                *)
(***************************************************************************)
NaN == [isna |-> TRUE]

Num(v) == [isna |-> FALSE, val |-> v]

Abs(n) == IF n < 0 THEN -n ELSE n

RECURSIVE GCD(_, _)
GCD(a, b) == IF b = 0 THEN a ELSE GCD(b, a % b)

\* the rational n/d (d > 0) in lowest terms
Rat(n, d) ==
    LET g == GCD(Abs(n), d) IN [num |-> n \div g, den |-> d \div g]

RatLe(a, b) == a.num * b.den <= b.num * a.den

RatLt(a, b) == a.num * b.den < b.num * a.den

RatAdd(a, b) == Rat(a.num * b.den + b.num * a.den, a.den * b.den)

RatSub(a, b) == Rat(a.num * b.den - b.num * a.den, a.den * b.den)

RatMul(a, b) == Rat(a.num * b.num, a.den * b.den)

\* a / b for b > 0
RatDiv(a, b) == Rat(a.num * b.den, a.den * b.num)

\* the whole number v
Whole(v) == Rat(v, 1)

Zero == Whole(0)

Hundred == Whole(100)

\* int(q): the fraction is cut off, towards zero
int_of(q) ==
    IF q.num >= 0 THEN q.num \div q.den ELSE -((-q.num) \div q.den)

\* pd.to_numeric(cell, errors='coerce'): the number a numeric string holds,
\* whole or not
to_numeric(cell) == IF cell.kind = "num" THEN Num(cell.val) ELSE NaN

\* a slip of the replacement value: 1 instead of 0
fillna_one(v) == IF v.isna THEN Whole(1) ELSE v.val

\* .fillna(0)
fillna0(v) == IF v.isna THEN Zero ELSE v.val

\* the probability of Series.quantile(0.995), in thousandths
QuantilePerMille == 995

\* the k-th smallest (k from 0) of a non-empty sequence of rationals
KthSmallest(vals, k) ==
    CHOOSE v \in Range(vals) :
        /\ Cardinality({i \in DOMAIN vals : RatLt(vals[i], v)}) <= k
        /\ k < Cardinality({i \in DOMAIN vals : RatLe(vals[i], v)})

\* Series.quantile(0.995), interpolation='linear', of a non-empty sequence:
\* position h = (n-1) * 0.995 in the sorted values, between its neighbours
quantile(vals) ==
    LET n    == Len(vals)
        h    == (n - 1) * QuantilePerMille
        lo   == h \div 1000
        frac == Rat(h % 1000, 1000)
        hi   == IF lo + 1 > n - 1 THEN n - 1 ELSE lo + 1
        a    == KthSmallest(vals, lo)
        b    == KthSmallest(vals, hi)
    IN  RatAdd(a, RatMul(frac, RatSub(b, a)))

(***************************************************************************)
(* Dates.                                                                  *)
(***************************************************************************)
NaT == [isna |-> TRUE]

IsLeap(y) == (y % 4 = 0 /\ y % 100 # 0) \/ y % 400 = 0

DaysInMonth(y, m) ==
    CASE m \in {4, 6, 9, 11} -> 30
      [] m = 2 -> IF IsLeap(y) THEN 29 ELSE 28
      [] OTHER -> 31

\* pd.to_datetime(cell, errors='coerce'): NaT for an empty cell, for text
\* that is no date and for an impossible calendar date
to_datetime(cell) ==
    IF /\ cell.kind = "ymd"
       /\ cell.m \in 1..12
       /\ cell.d \in 1..DaysInMonth(cell.y, cell.m)
    THEN [isna |-> FALSE, year |-> cell.y, month |-> cell.m, day |-> cell.d]
    ELSE NaT

\* .dt.to_period('Q')
to_period_Q(ts) == [year |-> ts.year, quarter |-> ((ts.month - 1) \div 3) + 1]

(***************************************************************************)
(* Geographic codes as read_csv reads them.                                *)
(***************************************************************************)
IsDigit(ch) == \E i \in DOMAIN DigitChars : DigitChars[i] = ch

DigitVal(ch) == (CHOOSE i \in DOMAIN DigitChars : DigitChars[i] = ch) - 1

\* a cell the parser's type inference reads as an integer
IsIntText(s) == s # <<>> /\ \A i \in DOMAIN s : IsDigit(s[i])

RECURSIVE ParseInt(_)
ParseInt(s) ==
    IF s = <<>> THEN 0
    ELSE ParseInt(SubSeq(s, 1, Len(s) - 1)) * 10 + DigitVal(s[Len(s)])

\* str(n) for n >= 0
RECURSIVE IntToStr(_)
IntToStr(n) ==
    IF n < 10 THEN <<DigitChars[n + 1]>>
    ELSE IntToStr(n \div 10) \o <<DigitChars[(n % 10) + 1]>>


(***************************************************************************)
(* Column names.  A header name of the file is text; the names the code    *)
(* uses after the rename are the strings "CODGEO", "LIBGEO", ...           *)
(***************************************************************************)
c_codgeo == <<"c","o","d","g","e","o","_","c","o","m","m","u","n","e">>
c_libelle == <<"l","i","b","e","l","l","e","_","c","o","m","m","u","n","e">>
c_date == <<"d","a","t","e","_","a","r","r","e","t","e">>
c_nb_vp == <<"n","b","_","v","p">>
c_rech == <<"_","r","e","c","h","a","r","g","e","a","b","l","e","s">>
c_el == c_nb_vp \o c_rech \o <<"_","e","l">>
c_hyb == c_nb_vp \o c_rech \o <<"_","h","y","b","r","i","d","e","s">> \o c_rech

Fields == {"code", "label", "date", "el", "gaz", "vp"}

\* the keys of rename_map
K_CODGEO_COMMUNE == upper(c_codgeo)
K_LIBELLE_COMMUNE == upper(c_libelle)
K_DATE_ARRETE == upper(c_date)
K_NB_VP_RECHARGEABLES_EL == upper(c_el)
K_NB_VP_RECHARGEABLES_HYBRIDES_RECHARGEABLES == upper(c_hyb)
K_NB_VP == upper(c_nb_vp)

\* df.columns.str.strip().str.upper() followed by df.rename(columns=rename_map):
\* the column name the code uses for a header name of the file
rename_map(name) ==
    LET n == upper(strip(name))
    IN  CASE n = K_CODGEO_COMMUNE -> "CODGEO"
          [] n = K_LIBELLE_COMMUNE -> "LIBGEO"
          [] n = K_DATE_ARRETE -> "DATE_ARRETE"
          [] n = K_NB_VP_RECHARGEABLES_EL -> "NB_VP_RECHARGEABLES_EL"
          [] n = K_NB_VP_RECHARGEABLES_HYBRIDES_RECHARGEABLES -> "NB_VP_RECHARGEABLES_GAZ"
          [] n = K_NB_VP -> "NB_VP"
          [] OTHER -> "OTHER"

\* dtype={'codgeo_commune': str, 'libelle_commune': str}: the header names
\* read_csv reads as text whatever the cells look like
dtype_str == {c_codgeo, c_libelle}

(***************************************************************************)
(* Input files: headers and data rows.                                     *)
(***************************************************************************)
HeaderStd ==
    [f \in Fields |->
        CASE f = "code" -> c_codgeo
          [] f = "label" -> c_libelle
          [] f = "date" -> c_date
          [] f = "el" -> c_el
          [] f = "gaz" -> c_hyb
          [] f = "vp" -> c_nb_vp]

\* the header of a file: the names in one of three forms (as documented, in
\* upper case, with surrounding whitespace), some columns missing
HeaderForms == {"std", "upper", "padded"}

HeaderOf(hd) ==
    [f \in Fields \ hd.missing |->
        CASE hd.form = "std" -> HeaderStd[f]
          [] hd.form = "upper" -> upper(HeaderStd[f])
          [] hd.form = "padded" -> <<" ">> \o HeaderStd[f] \o <<" ">>]

CompleteHeaders == {[form |-> fm, missing |-> {}] : fm \in HeaderForms}

IncompleteHeaders == {[form |-> "std", missing |-> {f}] : f \in Fields}

\* a cell that holds the number q, a cell that holds the whole number v
NumCell(q) == [kind |-> "num", val |-> q]

N(v) == NumCell(Whole(v))

Txt == [kind |-> "text"]
D(y, m, d) == [kind |-> "ymd", y |-> y, m |-> m, d |-> d]

Row(code, label, date, el, gaz, vp) ==
    [code |-> code, label |-> label, date |-> date, el |-> el, gaz |-> gaz, vp |-> vp]

L_Paris1 == <<"P","a","r","i","s"," ","1","e","r"," ",
              "A","r","r","o","n","d","i","s","s","e","m","e","n","t">>
L_Lucciana == <<"L","u","c","c","i","a","n","a">>
L_Eze == <<"E_grave","z","e">>
L_LyonPadded == <<" ","L","y","o","n"," ">>
L_Forains == <<"F","o","r","a","i","n","s">>
L_ND == <<"N","D">>
L_NonIdentifie == <<"N","o","n"," ","i","d","e","n","t","i","f","i","e_acute">>
L_NON_IDENTIFIEE == <<"N","O","N","-","I","D","E","N","T","I","F","I","E","E">>
L_ParisND == <<"P","a","r","i","s"," ","N","D">>
L_na == <<"n","a">>
L_blank == <<" ">>
L_empty == <<>>

G_75056 == <<"7","5","0","5","6">>
G_2A004 == <<"2","A","0","0","4">>
G_97411 == <<"9","7","4","1","1">>
G_01001 == <<"0","1","0","0","1">>
G_13055 == <<"1","3","0","5","5">>

RowPool ==
    << Row(G_75056, L_Paris1,         D(2023, 9, 30),  N(100), N(0),  N(100)),
       Row(G_2A004, L_Lucciana,       D(2023, 6, 30),  N(10),  N(10), N(200)),
       Row(G_97411, L_LyonPadded,     D(2023, 9, 30),  N(5),   N(0),  N(50)),
       Row(G_01001, L_Eze,            D(2023, 3, 31),  N(30),  N(20), N(100)),
       Row(G_01001, L_Eze,            D(2022, 12, 31), N(20),  N(5),  N(100)),
       Row(G_13055, L_Lucciana,       D(2023, 9, 30),  N(50),  N(0),  N(50)),
       Row(G_75056, L_Forains,        D(2023, 9, 30),  N(1),   N(1),  N(10)),
       Row(G_13055, L_ND,             D(2023, 9, 30),  N(0),   N(0),  N(40)),
       Row(G_13055, L_NonIdentifie,   D(2023, 9, 30),  N(100), N(0),  N(100)),
       Row(G_13055, L_NON_IDENTIFIEE, D(2023, 6, 30),  N(2),   N(0),  N(8)),
       Row(G_75056, L_ParisND,        D(2023, 9, 30),  N(3),   N(0),  N(300)),
       Row(G_2A004, L_Lucciana,       D(2023, 9, 30),  N(0),   N(0),  N(0)),
       Row(G_75056, L_Paris1,         D(2023, 6, 30),  N(60),  N(50), N(100)),
       Row(G_2A004, L_Lucciana,       D(2023, 9, 30),  N(3),   N(0),  Txt),
       Row(G_97411, L_LyonPadded,     D(2023, 6, 30),  Txt,    N(4),  N(16)),
       Row(G_75056, L_Paris1,         D(2023, 2, 30),  N(10),  N(0),  N(100)),
       Row(G_75056, L_Paris1,         Txt,             N(10),  N(0),  N(100)),
       Row(G_75056, L_empty,          D(2023, 9, 30),  N(10),  N(0),  N(100)),
       Row(G_75056, L_na,             D(2023, 9, 30),  N(10),  N(0),  N(100)),
       Row(G_75056, L_blank,          D(2023, 9, 30),  N(10),  N(0),  N(100)),
       Row(G_13055, L_Lucciana,       D(2023, 9, 30),  N(0 - 5), N(0), N(10)),
       Row(G_2A004, L_Lucciana,       D(2023, 6, 30),  N(10),  Txt,   N(200)),
       Row(G_01001, L_Eze,            D(2022, 12, 31), N(0),   N(0),  NumCell(Rat(1, 2))) >>

\* the files of n data rows: lines of RowPool, in the pool's order
RECURSIVE LinesFrom(_, _)
LinesFrom(first, n) ==
    IF n = 0 THEN {<<>>}
    ELSE UNION {{<<i>> \o rest : rest \in LinesFrom(i, n - 1)} :
                   i \in first..Len(RowPool)}

Tables(maxlen) == UNION {LinesFrom(1, n) : n \in 0..maxlen}

\* a readable file with a complete header and up to MaxRows rows, one with
\* a column missing and fewer rows, a file that does not exist, and a file
\* the parser rejects
Inputs ==
    {[status |-> "ok", header |-> h, lines |-> t] :
        h \in CompleteHeaders, t \in Tables(MaxRows)}
    \cup
    {[status |-> "ok", header |-> h, lines |-> t] :
        h \in IncompleteHeaders, t \in Tables(MaxRows - 1)}
    \cup
    {[status |-> st, header |-> [form |-> "std", missing |-> {}], lines |-> <<>>] :
        st \in {"FileNotFoundError", "ParserError"}}


(***************************************************************************)
(* pd.read_csv and the steps of load_and_clean_data, as operators on the   *)
(* rows of the DataFrame.                                                  *)
(***************************************************************************)
\* the cells the parser reads as missing (its default na_values)
na_values == {<<>>, <<"N","A">>, <<"N","a","N">>, <<"n","a","n">>,
              <<"N","U","L","L">>, <<"n","u","l","l">>}

\* the value read_csv gives a cell of the geographic-code column: text under
\* dtype str; otherwise an integer when every cell of the column is one
read_code(cell, name, allInt) ==
    IF name \notin dtype_str /\ allInt
    THEN [kind |-> "int", val |-> ParseInt(cell)]
    ELSE [kind |-> "str", s |-> cell]

\* .astype(str)
astype_str(v) == IF v.kind = "int" THEN IntToStr(v.val) ELSE v.s

\* pd.read_csv(DATA_PATH, sep=';', dtype=...), the normalisation of the
\* column names and the rename: the DataFrame of a readable file.  Each row
\* carries its label in the index of the DataFrame (0 for the first data line),
\* which the filters keep.
read_csv(file) ==
    LET h       == HeaderOf(file.header)
        raw     == [i \in DOMAIN file.lines |-> RowPool[file.lines[i]]]
        allInt  == \A i \in DOMAIN raw : IsIntText(raw[i].code)
        named   == {<<rename_map(h[f]), f>> : f \in DOMAIN h}
        cols    == {nf[1] : nf \in named}
        fieldOf(c) == (CHOOSE nf \in named : nf[1] = c)[2]
        cell(r, f) ==
            CASE f = "code" -> read_code(r.code, h[f], allInt)
              [] f = "label" ->
                   IF r.label \in na_values THEN [isna |-> TRUE]
                   ELSE [isna |-> FALSE, s |-> r.label]
              [] OTHER -> r[f]
    IN  [columns |-> cols,
         rows |-> [i \in DOMAIN raw |->
                      [c \in cols \cup {"index"} |->
                          IF c = "index" THEN i - 1 ELSE cell(raw[i], fieldOf(c))]]]

\* df['CODGEO'] = df['CODGEO'].astype(str)
codgeo_astype_str(d) ==
    [d EXCEPT !.rows = SetCol(d.rows, "CODGEO", LAMBDA r : astype_str(r.CODGEO))]

\* df['DATE_ARRETE'] = pd.to_datetime(df['DATE_ARRETE'], errors='coerce')
parse_dates(rows) == SetCol(rows, "DATE_ARRETE", LAMBDA r : to_datetime(r.DATE_ARRETE))

\* df.dropna(subset=['DATE_ARRETE', 'LIBGEO'])
dropna(rows) == SelectRows(rows, LAMBDA r : ~r.DATE_ARRETE.isna /\ ~r.LIBGEO.isna)

\* df['ANNEE'], df['TRIMESTRE']
add_periods(rows) ==
    SetCol(SetCol(rows, "ANNEE", LAMBDA r : r.DATE_ARRETE.year),
           "TRIMESTRE", LAMBDA r : to_period_Q(r.DATE_ARRETE))

num_cols == <<"NB_VP_RECHARGEABLES_EL", "NB_VP_RECHARGEABLES_GAZ", "NB_VP">>

\* one pass of the loop over num_cols
numeric_col(rows, columns, c) ==
    IF c \in columns
    THEN SetCol(rows, c, LAMBDA r : fillna0(to_numeric(r[c])))
    ELSE SetCol(rows, c, LAMBDA r : Zero)

numeric_cols(rows, columns) ==
    numeric_col(numeric_col(numeric_col(rows, columns, num_cols[1]),
                            columns, num_cols[2]),
                columns, num_cols[3])

\* a slip of step 1: a fleet of zero passes
filter_nb_vp_zero_passes(rows) == SelectRows(rows, LAMBDA r : RatLe(Zero, r.NB_VP))

\* 1) df[df['NB_VP'] > 0]
filter_nb_vp(rows) == SelectRows(rows, LAMBDA r : RatLt(Zero, r.NB_VP))

\* np.where(NB_VP > 0, NB_RECHARGEABLES_TOTAL / NB_VP * 100, 0)
part_electrique(r) ==
    IF RatLt(Zero, r.NB_VP)
    THEN RatMul(RatDiv(r.NB_RECHARGEABLES_TOTAL, r.NB_VP), Hundred)
    ELSE Zero

\* 2) NB_RECHARGEABLES_TOTAL and PART_ELECTRIQUE
indicators(rows) ==
    SetCol(SetCol(rows, "NB_RECHARGEABLES_TOTAL",
                  LAMBDA r : RatAdd(r.NB_VP_RECHARGEABLES_EL,
                                    r.NB_VP_RECHARGEABLES_GAZ)),
           "PART_ELECTRIQUE", part_electrique)

\* 3) df[df['NB_RECHARGEABLES_TOTAL'] <= df['NB_VP']]
filter_coherence(rows) ==
    SelectRows(rows, LAMBDA r : RatLe(r.NB_RECHARGEABLES_TOTAL, r.NB_VP))

\* a slip of step 4: the upper bound is exclusive
filter_rate_exclusive(rows) ==
    SelectRows(rows, LAMBDA r : /\ RatLe(Rat(0, 1), r.PART_ELECTRIQUE)
                                /\ RatLt(r.PART_ELECTRIQUE, Rat(100, 1)))

\* 4) df[(PART_ELECTRIQUE >= 0) & (PART_ELECTRIQUE <= 100)]
filter_rate(rows) ==
    SelectRows(rows, LAMBDA r : /\ RatLe(Rat(0, 1), r.PART_ELECTRIQUE)
                                /\ RatLe(r.PART_ELECTRIQUE, Rat(100, 1)))

\* the column PART_ELECTRIQUE
rates(rows) == [i \in DOMAIN rows |-> rows[i].PART_ELECTRIQUE]

\* a slip of step 5: a row at the percentile is removed too
filter_outliers_strict(rows, p) == SelectRows(rows, LAMBDA r : RatLt(r.PART_ELECTRIQUE, p))

\* 5) df[df['PART_ELECTRIQUE'] <= p995]
filter_outliers(rows, p) == SelectRows(rows, LAMBDA r : RatLe(r.PART_ELECTRIQUE, p))

\* a slip of step 5: the percentile is computed on an empty table too
percentile_step_unguarded(rows) ==
    [computed |-> TRUE,
     value |-> IF Len(rows) > 0 THEN quantile(rates(rows)) ELSE Rat(0, 1)]

\* 5) if len(df) > 0: p995 = df['PART_ELECTRIQUE'].quantile(0.995)
percentile_step(rows) ==
    IF Len(rows) > 0
    THEN [computed |-> TRUE, value |-> quantile(rates(rows))]
    ELSE [computed |-> FALSE]

\* a slip of step 5: the rows above the percentile are not removed
outliers_keeps_all(rows) == rows

\* a slip of step 5: only the rows strictly below the percentile are kept
outliers_strictly_below(rows) ==
    IF Len(rows) > 0
    THEN SelectRows(rows, LAMBDA r : RatLt(r.PART_ELECTRIQUE, percentile_step(rows).value))
    ELSE rows

\* 5) the rows the outlier step keeps
outliers(rows) ==
    IF Len(rows) > 0 THEN filter_outliers(rows, percentile_step(rows).value) ELSE rows

\* df['DEPARTEMENT'] = df['CODGEO'].apply(get_departement_code)
add_departement(rows) ==
    SetCol(rows, "DEPARTEMENT", LAMBDA r : get_departement_code(r.CODGEO))

\* a slip of the normalisation: it is written to LIBGEO itself
add_libgeo_norm_in_place(rows) ==
    SetCol(SetCol(rows, "LIBGEO", LAMBDA r : strip_accents_upper(r.LIBGEO.s)),
           "LIBGEO_NORM", LAMBDA r : r.LIBGEO)

\* df['LIBGEO'].astype(str).str.strip() and df['LIBGEO_NORM']
add_libgeo_norm(rows) ==
    SetCol(SetCol(rows, "LIBGEO", LAMBDA r : strip(r.LIBGEO.s)),
           "LIBGEO_NORM", LAMBDA r : strip_accents_upper(r.LIBGEO))

\* a slip of the label filter: the mask is not applied
filter_labels_unmasked(rows) == DropCol(rows, "LIBGEO_NORM")

\* df[mask_valid].drop(columns=['LIBGEO_NORM'])
filter_labels(rows) ==
    DropCol(SelectRows(rows, LAMBDA r : mask_valid(r.LIBGEO_NORM)), "LIBGEO_NORM")


\* lines 80-111 on the rows read: what reaches the outlier step
before_outliers(rows, columns) ==
    filter_rate(filter_coherence(indicators(filter_nb_vp(
        numeric_cols(add_periods(dropna(parse_dates(rows))), columns)))))

\* lines 118-134 on the rows the outlier step kept
after_outliers(rows) == filter_labels(add_libgeo_norm(add_departement(rows)))

\* lines 80-134
clean_rows(rows, columns) == after_outliers(outliers(before_outliers(rows, columns)))

\* lines 80-134 without the outlier step
clean_rows_no_outliers(rows, columns) == after_outliers(before_outliers(rows, columns))

(***************************************************************************)
(* State.                                                                  *)
(*   csv        the input file: its status, header and data lines          *)
(*   pc         the position of load_and_clean_data                        *)
(*   df         the local DataFrame df of load_and_clean_data              *)
(*   exc        the exception being raised inside the try block, if any    *)
(*   p995       the percentile of step 5, once computed                    *)
(*   result     what load_and_clean_data returned                          *)
(*   st_errors  the st.error messages shown on the page, in order          *)
(*   app        the position of the script that called it                  *)
(*   widgets    the widget values the user has set in the session          *)
(*   sel        the values the sidebar widgets gave this run of the script *)
(*   df_current, df_prev, df_map, df_hist                                  *)
(*              the tables the script filters from the returned table      *)
(*   kpi        the indicators the script computes from df_current and     *)
(*              df_prev                                                    *)
(*   sliders    the st.slider calls of this run of the script, in order    *)
(*   calls      the calls of load_and_clean_data in the session            *)
(*   reads      the executions of the body of load_and_clean_data          *)
(*   returned   what the completed calls returned, in order                *)
(*   ld         a call of load_data (utils.py): its arguments, what each   *)
(*              read of the file does, its position, the reads attempted   *)
(*              and its outcome                                            *)
(***************************************************************************)
NoDf == [columns |-> {}, rows |-> <<>>]

Pending == [kind |-> "pending"]

None == [kind |-> "None"]

Table(d) == [kind |-> "table", columns |-> d.columns, rows |-> d.rows]

\* the sidebar has not run
NoSel == [built |-> FALSE]

\* the indicators are not computed
NoKpi == [computed |-> FALSE]

\* load_data is not called
NotCalled == [pc |-> "idle"]

Init ==
    /\ csv \in Inputs
    /\ pc = "lecture"
    /\ df = NoDf
    /\ exc = "none"
    /\ p995 = [computed |-> FALSE]
    /\ result = Pending
    /\ st_errors = <<>>
    /\ app = "load"
    /\ widgets = [set |-> FALSE]
    /\ sel = NoSel
    /\ df_current = <<>>
    /\ df_prev = <<>>
    /\ kpi = NoKpi
    /\ df_map = <<>>
    /\ df_hist = <<>>
    /\ sliders = <<>>
    /\ calls = 1
    /\ reads = 0
    /\ returned = <<>>
    /\ ld = NotCalled

\* an exception leaves the try block for its except clause
Raise(e) ==
    /\ pc' = "except"
    /\ exc' = e
    /\ reads' = IF pc = "lecture" THEN reads + 1 ELSE reads
    /\ UNCHANGED <<csv, df, p995, result, st_errors, app, page_vars, session_vars, ld>>

\* the next statement of the try block, with the DataFrame it leaves
Goto(next, d) ==
    /\ pc' = next
    /\ df' = d
    /\ reads' = IF pc = "lecture" THEN reads + 1 ELSE reads
    /\ UNCHANGED <<csv, exc, result, st_errors, app, page_vars, session_vars, ld>>

\* lines 58-78: read_csv, column names, rename, CODGEO as str
Lecture ==
    /\ pc = "lecture"
    /\ IF csv.status # "ok" THEN Raise(csv.status)
       ELSE LET d == read_csv(csv)
            IN  IF "CODGEO" \notin d.columns THEN Raise("KeyError: 'CODGEO'")
                ELSE /\ Goto("dates", codgeo_astype_str(d))
                     /\ UNCHANGED p995

\* lines 80-84: dates, dropna, ANNEE and TRIMESTRE
Dates ==
    /\ pc = "dates"
    /\ IF "DATE_ARRETE" \notin df.columns THEN Raise("KeyError: 'DATE_ARRETE'")
       ELSE IF "LIBGEO" \notin df.columns THEN Raise("KeyError: ['LIBGEO']")
       ELSE /\ Goto("numeriques",
                    [columns |-> df.columns \cup {"ANNEE", "TRIMESTRE"},
                     rows |-> add_periods(dropna(parse_dates(df.rows)))])
            /\ UNCHANGED p995

\* a variant of lines 86-92 that treats a missing count column as an error
Numeriques_raises ==
    /\ pc = "numeriques"
    /\ IF Range(num_cols) \subseteq df.columns
       THEN /\ Goto("filtre_vp",
                    [columns |-> df.columns \cup Range(num_cols),
                     rows |-> numeric_cols(df.rows, df.columns)])
            /\ UNCHANGED p995
       ELSE Raise("KeyError: count column")

\* lines 86-92: the numeric columns, a missing one filled with 0
Numeriques ==
    /\ pc = "numeriques"
    /\ Goto("filtre_vp",
            [columns |-> df.columns \cup Range(num_cols),
             rows |-> numeric_cols(df.rows, df.columns)])
    /\ UNCHANGED p995

\* lines 94-95
FiltreVP ==
    /\ pc = "filtre_vp"
    /\ Goto("indicateurs", [df EXCEPT !.rows = filter_nb_vp(df.rows)])
    /\ UNCHANGED p995

\* lines 97-105
Indicateurs ==
    /\ pc = "indicateurs"
    /\ Goto("coherence",
            [columns |-> df.columns \cup {"NB_RECHARGEABLES_TOTAL", "PART_ELECTRIQUE"},
             rows |-> indicators(df.rows)])
    /\ UNCHANGED p995

\* lines 107-108
Coherence ==
    /\ pc = "coherence"
    /\ Goto("taux", [df EXCEPT !.rows = filter_coherence(df.rows)])
    /\ UNCHANGED p995

\* lines 110-111
Taux ==
    /\ pc = "taux"
    /\ Goto("outliers", [df EXCEPT !.rows = filter_rate(df.rows)])
    /\ UNCHANGED p995

\* lines 113-116: the percentile is computed only on a non-empty table
Outliers ==
    /\ pc = "outliers"
    /\ p995' = percentile_step(df.rows)
    /\ Goto("departement", [df EXCEPT !.rows = outliers(df.rows)])

\* lines 118-119
Departement ==
    /\ pc = "departement"
    /\ Goto("libelles",
            [columns |-> df.columns \cup {"DEPARTEMENT"},
             rows |-> add_departement(df.rows)])
    /\ UNCHANGED p995

\* lines 121-134
Libelles ==
    /\ pc = "libelles"
    /\ Goto("return", [df EXCEPT !.rows = filter_labels(add_libgeo_norm(df.rows))])
    /\ UNCHANGED p995

\* a slip of line 136: the rows of the table returned before are kept in a
\* table of the module and returned again with the new ones
Return_with_earlier_rows ==
    /\ pc = "return"
    /\ pc' = "done"
    /\ result' =
           IF returned # <<>> /\ returned[Len(returned)].kind = "table"
           THEN Table([df EXCEPT !.rows = returned[Len(returned)].rows \o @])
           ELSE Table(df)
    /\ returned' = Append(returned, result')
    /\ UNCHANGED <<csv, df, exc, p995, st_errors, app, page_vars, widgets, calls, reads, ld>>

\* line 136: return df
Return ==
    /\ pc = "return"
    /\ pc' = "done"
    /\ result' = Table(df)
    /\ returned' = Append(returned, result')
    /\ UNCHANGED <<csv, df, exc, p995, st_errors, app, page_vars, widgets, calls, reads, ld>>

LoaderDiagnostic(e) ==
    [by |-> "load_and_clean_data", text |-> "Erreur lors du chargement des donnees", cause |-> e]

\* a slip of lines 138-140: the DataFrame built so far is returned
Except_returns_df ==
    /\ pc = "except"
    /\ pc' = "done"
    /\ st_errors' = Append(st_errors, LoaderDiagnostic(exc))
    /\ result' = Table(df)
    /\ returned' = Append(returned, result')
    /\ UNCHANGED <<csv, df, exc, p995, app, page_vars, widgets, calls, reads, ld>>

\* lines 138-140: except Exception: st.error(...); return None
Except ==
    /\ pc = "except"
    /\ pc' = "done"
    /\ st_errors' = Append(st_errors, LoaderDiagnostic(exc))
    /\ result' = None
    /\ returned' = Append(returned, result')
    /\ UNCHANGED <<csv, df, exc, p995, app, page_vars, widgets, calls, reads, ld>>

load_and_clean_data ==
    \/ Lecture \/ Dates \/ Numeriques \/ FiltreVP \/ Indicateurs \/ Coherence
    \/ Taux \/ Outliers \/ Departement \/ Libelles \/ Return \/ Except

(***************************************************************************)
(* The script that calls load_and_clean_data (app.py, test.py).            *)
(***************************************************************************)
CallerError == [by |-> "app", text |-> "Impossible de charger les donnees"]

\* a slip of the test of the caller: an empty table is not checked
no_data_none_only(r) == r.kind = "None"

\* df is None or df.empty
no_data(r) == r.kind = "None" \/ r.rows = <<>>

\* what the caller shows for a result before it goes on or stops
caller_shows(r) == IF no_data(r) THEN <<CallerError>> ELSE <<>>

\* df = load_and_clean_data(DATA_PATH); if df is None or df.empty:
\*     st.error(...); st.stop()
CheckData ==
    /\ app = "load"
    /\ pc = "done"
    /\ st_errors' = st_errors \o caller_shows(result)
    /\ app' = IF no_data(result) THEN "stopped" ELSE "sidebar"
    /\ UNCHANGED <<csv, pc, df, exc, p995, result, page_vars, session_vars, reads, ld>>

\* a pandas Period of frequency Q as the integer it holds, and back
period_ordinal(p) == (p.year - 1970) * 4 + (p.quarter - 1)

period_of(n) == [year |-> 1970 + (n \div 4), quarter |-> (n % 4) + 1]

\* period - k
period_minus(p, k) == period_of(period_ordinal(p) - k)

\* f"T{int(q.quarter)} {int(q.year)}"
quarter_label(q) == <<"T">> \o IntToStr(q.quarter) \o <<" ">> \o IntToStr(q.year)

\* sorted(df['TRIMESTRE'].unique()), as a set
quarters_available(rows) == {rows[i].TRIMESTRE : i \in DOMAIN rows}

\* the last of the sorted quarters
last_quarter(qs) ==
    CHOOSE q \in qs : \A o \in qs : period_ordinal(o) <= period_ordinal(q)

\* label_to_period[label]
label_to_period(qs, label) == CHOOSE q \in qs : quarter_label(q) = label

\* sorted(df['DEPARTEMENT'].unique()), as a set
departements(rows) == {rows[i].DEPARTEMENT : i \in DOMAIN rows}

Tous == <<"T","o","u","s">>

domtom ==
    {<<"9","7","1">>, <<"9","7","2">>, <<"9","7","3">>, <<"9","7","4">>,
     <<"9","7","6">>, <<"9","7","5">>, <<"9","7","7">>, <<"9","7","8">>,
     <<"9","8","4">>, <<"9","8","6">>, <<"9","8","7">>, <<"9","8","8">>}

\* filtered_departements, as a set
filtered_departements(deps, selected, exclude_domtom) ==
    IF Tous \in selected
    THEN {d \in deps : ~exclude_domtom \/ d \notin domtom}
    ELSE {d \in selected : ~exclude_domtom \/ d \notin domtom}

\* int(df['NB_VP'].max())
max_nb_vp(rows) ==
    LET vs == {rows[i].NB_VP : i \in DOMAIN rows}
    IN  int_of(CHOOSE v \in vs : \A o \in vs : RatLe(o, v))

slider_min_value == 0

slider_value == 100

slider_step == 50

\* a call of st.slider: its name and its arguments
slider_call(name, lo, hi, value, step) ==
    [name |-> name, min_value |-> lo, max_value |-> hi, value |-> value,
     step |-> step]

\* the default value lies within min_value..max_value
slider_accepts(lo, hi, value) == lo <= value /\ value <= hi

\* what st.slider does with a call: it gives a value; given a default value
\* outside min_value..max_value it raises StreamlitAPIException or widens the
\* bounds to hold the value, as the installed version of the library has it
slider_outcomes(s) ==
    IF slider_accepts(s.min_value, s.max_value, s.value)
    THEN {"value"}
    ELSE {"value", "exception"}

\* the upper bound of a slider that gave a value
slider_upper(hi, value) == IF value > hi THEN value ELSE hi

\* the values the slider can be moved to
slider_values(lo, hi) == {v \in lo..hi : (v - lo) % slider_step = 0}

\* what the widgets give when the user has set none: the last quarter, Tous,
\* the toggle off, 100 vehicles, the map on the selected quarter
default_widgets(rows) ==
    [set |-> FALSE,
     quarter |-> quarter_label(last_quarter(quarters_available(rows))),
     departements |-> {Tous},
     exclude_domtom |-> FALSE,
     min_vehicles |-> slider_value,
     map_quarter |-> quarter_label(last_quarter(quarters_available(rows)))]

\* the values the user can set on the rendered page
widget_choices(rows) ==
    LET labels == {quarter_label(q) : q \in quarters_available(rows)}
    IN  [set : {TRUE},
         quarter : labels,
         departements : {{Tous}} \cup SUBSET departements(rows),
         exclude_domtom : BOOLEAN,
         min_vehicles : slider_values(slider_min_value,
                                      slider_upper(max_nb_vp(rows), slider_value)),
         map_quarter : labels]

\* lines 85-123: the sidebar widgets and the values they give
Sidebar ==
    /\ app = "sidebar"
    /\ LET rows == result.rows
           w == IF widgets.set THEN widgets ELSE default_widgets(rows)
           s == slider_call("min_vehicles", slider_min_value, max_nb_vp(rows),
                            slider_value, slider_step)
       IN  /\ sliders' = Append(sliders, s)
           /\ \E o \in slider_outcomes(s) :
                  IF o = "exception"
                  THEN /\ app' = "exception"
                       /\ sel' = sel
                  ELSE /\ app' = "perimetre"
                       /\ sel' = [built |-> TRUE,
                                  selected_period |->
                                      label_to_period(quarters_available(rows),
                                                      w.quarter),
                                  selected_departements |-> w.departements,
                                  exclude_domtom |-> w.exclude_domtom,
                                  filtered_departements |->
                                      filtered_departements(departements(rows),
                                                            w.departements,
                                                            w.exclude_domtom),
                                  min_vehicles |-> w.min_vehicles]
    /\ UNCHANGED <<csv, pc, df, exc, p995, result, st_errors,
                   df_current, df_prev, kpi, df_map, df_hist, session_vars, reads, ld>>

\* df[(TRIMESTRE == period) & DEPARTEMENT.isin(deps) & (NB_VP >= min_vehicles)]
perimeter(rows, period, deps, min_vehicles) ==
    SelectRows(rows, LAMBDA r : /\ r.TRIMESTRE = period
                                /\ r.DEPARTEMENT \in deps
                                /\ RatLe(Whole(min_vehicles), r.NB_VP))

\* df_current[(PART_ELECTRIQUE >= 0) & (PART_ELECTRIQUE <= 100)]
current_rate_range(rows) ==
    SelectRows(rows, LAMBDA r : /\ RatLe(Rat(0, 1), r.PART_ELECTRIQUE)
                                /\ RatLe(r.PART_ELECTRIQUE, Rat(100, 1)))

\* a slip of the threshold of df_current: a fleet of min_vehicles is left out
current_of_above_threshold(rows, s) ==
    current_rate_range(
        SelectRows(rows, LAMBDA r : /\ r.TRIMESTRE = s.selected_period
                                    /\ r.DEPARTEMENT \in s.filtered_departements
                                    /\ RatLt(Whole(s.min_vehicles), r.NB_VP)))

\* lines 128-133: df_current
current_of(rows, s) ==
    current_rate_range(
        perimeter(rows, s.selected_period, s.filtered_departements, s.min_vehicles))

\* a slip of prev_period: the same quarter of the year before
prev_period_year_before(p) == [p EXCEPT !.year = @ - 1]

\* prev_period = selected_period - 1
prev_period(p) == period_minus(p, 1)

\* lines 135-140: df_prev
prev_of(rows, s) ==
    perimeter(rows, prev_period(s.selected_period), s.filtered_departements,
              s.min_vehicles)

\* rows[col].sum()
RECURSIVE sum_col(_, _)
sum_col(rows, col) ==
    IF rows = <<>> THEN Zero ELSE RatAdd(Head(rows)[col], sum_col(Tail(rows), col))

\* int(rows[col].sum()) if not rows.empty else 0
total_of(rows, col) == IF rows = <<>> THEN 0 ELSE int_of(sum_col(rows, col))

\* int(rows[col].nunique()) if not rows.empty else 0
nunique_of(rows, col) == Cardinality({rows[i][col] : i \in DOMAIN rows})

\* (total_ev / total_vp * 100) if total_vp > 0 else 0.0
weighted_rate(total_ev, total_vp) ==
    IF total_vp > 0 THEN Rat(total_ev * 100, total_vp) ELSE Rat(0, 1)

\* (prev_total_ev / prev_total_vp * 100) if prev_total_vp > 0 else np.nan
prev_rate(prev_total_ev, prev_total_vp) ==
    IF prev_total_vp > 0
    THEN Num(Rat(prev_total_ev * 100, prev_total_vp))
    ELSE NaN

\* None if np.isnan(prev_rate) else (weighted_rate - prev_rate)
delta_pp_value(rate, prev) ==
    IF prev.isna THEN None ELSE [kind |-> "float", val |-> RatSub(rate, prev.val)]

\* a slip of total_vp: the fleet is summed over the previous quarter
kpis_fleet_of_prev(cur, prev) ==
    LET total_vp == total_of(prev, "NB_VP")
        total_ev == total_of(cur, "NB_RECHARGEABLES_TOTAL")
        prev_total_vp == total_of(prev, "NB_VP")
        prev_total_ev == total_of(prev, "NB_RECHARGEABLES_TOTAL")
    IN  [computed |-> TRUE,
         total_vp |-> total_vp,
         total_ev |-> total_ev,
         weighted_rate |-> weighted_rate(total_ev, total_vp),
         communes_count |-> nunique_of(cur, "LIBGEO"),
         prev_total_vp |-> prev_total_vp,
         prev_total_ev |-> prev_total_ev,
         prev_rate |-> prev_rate(prev_total_ev, prev_total_vp),
         delta_pp_value |->
             delta_pp_value(weighted_rate(total_ev, total_vp),
                            prev_rate(prev_total_ev, prev_total_vp))]

\* lines 142-150: the indicators of df_current and of df_prev
kpis(cur, prev) ==
    LET total_vp == total_of(cur, "NB_VP")
        total_ev == total_of(cur, "NB_RECHARGEABLES_TOTAL")
        prev_total_vp == total_of(prev, "NB_VP")
        prev_total_ev == total_of(prev, "NB_RECHARGEABLES_TOTAL")
    IN  [computed |-> TRUE,
         total_vp |-> total_vp,
         total_ev |-> total_ev,
         weighted_rate |-> weighted_rate(total_ev, total_vp),
         communes_count |-> nunique_of(cur, "LIBGEO"),
         prev_total_vp |-> prev_total_vp,
         prev_total_ev |-> prev_total_ev,
         prev_rate |-> prev_rate(prev_total_ev, prev_total_vp),
         delta_pp_value |->
             delta_pp_value(weighted_rate(total_ev, total_vp),
                            prev_rate(prev_total_ev, prev_total_vp))]

\* a slip of lines 128-133: the table is filtered in place
Perimetre_in_place ==
    /\ app = "perimetre"
    /\ app' = "tabs"
    /\ df_current' = current_of(result.rows, sel)
    /\ df_prev' = prev_of(result.rows, sel)
    /\ kpi' = kpis(current_of(result.rows, sel), prev_of(result.rows, sel))
    /\ result' = [result EXCEPT !.rows = current_of(result.rows, sel)]
    /\ UNCHANGED <<csv, pc, df, exc, p995, st_errors, sel, df_map, df_hist, sliders,
                   session_vars, reads, ld>>

\* lines 128-150: df_current and df_prev are filtered from the table, and the
\* indicators computed from them
Perimetre ==
    /\ app = "perimetre"
    /\ app' = "tabs"
    /\ df_current' = current_of(result.rows, sel)
    /\ df_prev' = prev_of(result.rows, sel)
    /\ kpi' = kpis(current_of(result.rows, sel), prev_of(result.rows, sel))
    /\ UNCHANGED <<csv, pc, df, exc, p995, result, st_errors, sel, df_map, df_hist,
                   sliders, session_vars, reads, ld>>

\* lines 225-229: df_map, on the quarter of the map's own slider
map_of(rows, s, map_quarter) ==
    perimeter(rows, label_to_period(quarters_available(rows), map_quarter),
              s.filtered_departements, s.min_vehicles)

\* line 286: df_hist, every quarter of the perimeter
hist_of(rows, s) ==
    SelectRows(rows, LAMBDA r : /\ r.DEPARTEMENT \in s.filtered_departements
                                /\ RatLe(Whole(s.min_vehicles), r.NB_VP))

\* the place of a character of a department code in code point order
CharRank(ch) ==
    CHOOSE i \in 1..(Len(DigitChars) + Len(UpperLetters)) :
        (DigitChars \o UpperLetters)[i] = ch

\* a < b as Python compares strings
RECURSIVE StrLess(_, _)
StrLess(a, b) ==
    IF a = <<>> THEN b # <<>>
    ELSE IF b = <<>> THEN FALSE
    ELSE IF Head(a) = Head(b) THEN StrLess(Tail(a), Tail(b))
    ELSE CharRank(Head(a)) < CharRank(Head(b))

\* eligible_depts[0] of the sorted codes
first_dept(eligible) ==
    CHOOSE d \in eligible : \A o \in eligible : o = d \/ StrLess(d, o)

\* selected_dept: the only department, or the option of the selectbox, the
\* first by default and any of them once the user has set the widgets (the
\* list is then in the order of the user's selection)
dept_choices(eligible) ==
    IF widgets.set THEN eligible ELSE {first_dept(eligible)}

\* the mean of a non-empty sequence of rates
RECURSIVE sum_rates(_)
sum_rates(vals) ==
    IF vals = <<>> THEN Rat(0, 1) ELSE RatAdd(Head(vals), sum_rates(Tail(vals)))

mean_rate(vals) == RatMul(sum_rates(vals), Rat(1, Len(vals)))

\* df_current[DEPARTEMENT == selected_dept].groupby('LIBGEO').agg(...): one
\* row per commune label
communes_dept(cur, dept) ==
    LET rows == SelectRows(cur, LAMBDA r : r.DEPARTEMENT = dept)
        of(l) == SelectRows(rows, LAMBDA r : r.LIBGEO = l)
    IN  {[LIBGEO |-> l,
          EV |-> sum_col(of(l), "NB_RECHARGEABLES_TOTAL"),
          PARC |-> sum_col(of(l), "NB_VP"),
          TAUX |-> mean_rate(rates(of(l)))] :
             l \in {rows[i].LIBGEO : i \in DOMAIN rows}}

Min(a, b) == IF a < b THEN a ELSE b

topn_min_value == 5

topn_max_cap == 50

topn_default == 20

topn_step == 5

\* st.slider("Nombre de communes", 5, min(50, n), min(20, n), 5) of the
\* communes of a department
communes_topn(n) ==
    slider_call("communes_topn", topn_min_value, Min(topn_max_cap, n),
                Min(topn_default, n), topn_step)

\* st.slider("Nombre de communes", min_value=5, max_value=30, value=10,
\* step=5) of the ranking
rank_topn == slider_call("rank_topn", 5, 30, 10, 5)

\* lines 177-653: the tabs are rendered; the script runs to its end unless
\* the slider of the communes of a department raises
Tabs ==
    /\ app = "tabs"
    /\ LET w == IF widgets.set THEN widgets ELSE default_widgets(result.rows)
       IN  df_map' = map_of(result.rows, sel, w.map_quarter)
    /\ df_hist' = hist_of(result.rows, sel)
    /\ LET eligible == sel.filtered_departements
       IN  IF eligible = {}
           THEN /\ sliders' = Append(sliders, rank_topn)
                /\ app' = "rendered"
           ELSE \E d \in dept_choices(eligible) :
                    LET n == Cardinality(communes_dept(df_current, d))
                    IN  IF n = 0
                        THEN /\ sliders' = Append(sliders, rank_topn)
                             /\ app' = "rendered"
                        ELSE /\ sliders' = sliders \o <<rank_topn, communes_topn(n)>>
                             /\ \E o \in slider_outcomes(communes_topn(n)) :
                                    app' = IF o = "exception"
                                           THEN "exception" ELSE "rendered"
    /\ UNCHANGED <<csv, pc, df, exc, p995, result, st_errors, sel,
                   df_current, df_prev, kpi, session_vars, reads, ld>>

\* the user sets widgets of the rendered page (or asks for a rerun of a page
\* that stopped): the script runs again from its first line
Rerun ==
    /\ app \in {"rendered", "stopped", "exception"}
    /\ calls < MaxCalls
    /\ \E w \in (IF app = "rendered" THEN widget_choices(result.rows) ELSE {widgets}) :
           widgets' = w
    /\ calls' = calls + 1
    /\ app' = "load"
    /\ pc' = "lecture"
    /\ df' = NoDf
    /\ exc' = "none"
    /\ p995' = [computed |-> FALSE]
    /\ result' = Pending
    /\ st_errors' = <<>>
    /\ sel' = NoSel
    /\ df_current' = <<>>
    /\ df_prev' = <<>>
    /\ kpi' = NoKpi
    /\ df_map' = <<>>
    /\ df_hist' = <<>>
    /\ sliders' = <<>>
    /\ UNCHANGED <<csv, reads, returned, ld>>

Next == load_and_clean_data \/ CheckData \/ Sidebar \/ Perimetre \/ Tabs

\* one run of the script
Spec == Init /\ [][Next]_vars

\* the lines of the files of a session
SessionLines == {1, 2, 3, 4, 5, 6, 7, 15, 23}

\* the files of a session: the header as documented
SessionInputs ==
    {f \in Inputs : f.header.form = "std" /\ Range(f.lines) \subseteq SessionLines}

InitSession == Init /\ csv \in SessionInputs

NextSession == Next \/ Rerun

\* a session: the script runs, and runs again when the user sets a widget
Session == InitSession /\ [][NextSession]_vars

(***************************************************************************)
(* load_data (utils.py): the reads of the file it attempts in turn.        *)
(***************************************************************************)
\* the (separator, encoding) combinations of the calls of pd.read_csv
Combos == {"semicolon_utf8", "comma_utf8", "semicolon_latin1"}

\* what a call of pd.read_csv does: it returns a table or raises
ReadOutcomes == {"ok", "UnicodeDecodeError", "ParserError", "FileNotFoundError"}

\* the values of an argument: not given, an empty string, a location
ArgValues == {"None", "", "location"}

\* if path: / elif url:
Truthy(a) == a \notin {"None", ""}

\* the DataFrame a read returns
TableRead(source, combo) == [kind |-> "table", source |-> source, combo |-> combo]

\* the calls load_data can be entered with: its arguments and, for each
\* combination, what reading the file with it does
LoadDataCalls ==
    [pc : {"start"}, path : ArgValues, url : ArgValues,
     reads : [Combos -> ReadOutcomes],
     attempts : {<<>>}, df : {"none"}, exc : {"none"}, outcome : {"none"}]

\* one call of pd.read_csv: on success the function goes to its return, on an
\* exception to the handler at failpc
Attempt(source, combo, failpc) ==
    /\ ld' = IF ld.reads[combo] = "ok"
             THEN [ld EXCEPT !.pc = "return",
                             !.attempts = Append(@, <<source, combo>>),
                             !.df = TableRead(source, combo)]
             ELSE [ld EXCEPT !.pc = failpc,
                             !.attempts = Append(@, <<source, combo>>),
                             !.exc = ld.reads[combo]]
    /\ UNCHANGED script_vars

\* lines 15-18: sep=';', encoding='utf-8' on the path
PathSemicolonUtf8 ==
    /\ ld.pc = "start"
    /\ Truthy(ld.path)
    /\ Attempt("path", "semicolon_utf8", "path_2")

\* a slip of lines 19-21: no third read after the second has raised
PathCommaUtf8_last ==
    /\ ld.pc = "path_2"
    /\ Attempt("path", "comma_utf8", "except")

\* lines 19-21: sep=',', encoding='utf-8' on the path
PathCommaUtf8 ==
    /\ ld.pc = "path_2"
    /\ Attempt("path", "comma_utf8", "path_3")

\* lines 22-23: sep=';', encoding='latin-1' on the path
PathSemicolonLatin1 ==
    /\ ld.pc = "path_3"
    /\ Attempt("path", "semicolon_latin1", "except")

\* lines 24-27: sep=';', encoding='utf-8' on the url
UrlSemicolonUtf8 ==
    /\ ld.pc = "start"
    /\ ~Truthy(ld.path)
    /\ Truthy(ld.url)
    /\ Attempt("url", "semicolon_utf8", "url_2")

\* lines 28-29: sep=',', encoding='utf-8' on the url
UrlCommaUtf8 ==
    /\ ld.pc = "url_2"
    /\ Attempt("url", "comma_utf8", "except")

\* lines 30-31: raise ValueError("Fournir path ou url")
NoSource ==
    /\ ld.pc = "start"
    /\ ~Truthy(ld.path)
    /\ ~Truthy(ld.url)
    /\ ld' = [ld EXCEPT !.pc = "except", !.exc = "ValueError: Fournir path ou url"]
    /\ UNCHANGED script_vars

\* line 33: return df
LoadDataReturn ==
    /\ ld.pc = "return"
    /\ ld' = [ld EXCEPT !.pc = "done", !.outcome = ld.df]
    /\ UNCHANGED script_vars

\* lines 34-35: raise Exception(f"Impossible de lire le fichier: {str(e)}")
LoadDataExcept ==
    /\ ld.pc = "except"
    /\ ld' = [ld EXCEPT !.pc = "raised",
                        !.outcome = [kind |-> "Exception",
                                     text |-> "Impossible de lire le fichier: ",
                                     cause |-> ld.exc]]
    /\ UNCHANGED script_vars

load_data ==
    \/ PathSemicolonUtf8 \/ PathCommaUtf8 \/ PathSemicolonLatin1
    \/ UrlSemicolonUtf8 \/ UrlCommaUtf8 \/ NoSource
    \/ LoadDataReturn \/ LoadDataExcept

\* a call of load_data, the script not running
InitLoadData ==
    /\ ld \in LoadDataCalls
    /\ csv = [status |-> "FileNotFoundError",
              header |-> [form |-> "std", missing |-> {}], lines |-> <<>>]
    /\ pc = "lecture"
    /\ df = NoDf
    /\ exc = "none"
    /\ p995 = [computed |-> FALSE]
    /\ result = Pending
    /\ st_errors = <<>>
    /\ app = "load"
    /\ widgets = [set |-> FALSE]
    /\ sel = NoSel
    /\ df_current = <<>>
    /\ df_prev = <<>>
    /\ kpi = NoKpi
    /\ df_map = <<>>
    /\ df_hist = <<>>
    /\ sliders = <<>>
    /\ calls = 1
    /\ reads = 0
    /\ returned = <<>>

LoadData == InitLoadData /\ [][load_data]_vars



(***************************************************************************)
(* Properties.                                                             *)
(***************************************************************************)
Last(q) == q[Len(q)]

\* load_and_clean_data has returned a table
Returned == pc = "done" /\ result.kind = "table"

\* the file is readable and its header has the six columns
CompleteInput == csv.status = "ok" /\ csv.header.missing = {}

\* the file holds line i of RowPool
HasLine(i) == \E k \in DOMAIN csv.lines : csv.lines[k] = i

\* C1: every row of the returned table has NB_VP > 0, NB_RECHARGEABLES_TOTAL <=
\* NB_VP and 0 <= PART_ELECTRIQUE <= 100; no row with a fleet of 0 and no row
\* with 60 electric, 50 other and 100 in total is in it.
C1_RowInvariants ==
    Returned =>
        \A i \in DOMAIN result.rows :
            LET r == result.rows[i]
            IN  /\ RatLt(Zero, r.NB_VP)
                /\ RatLe(r.NB_RECHARGEABLES_TOTAL, r.NB_VP)
                /\ r.PART_ELECTRIQUE.num >= 0
                /\ r.PART_ELECTRIQUE.num <= 100 * r.PART_ELECTRIQUE.den
                /\ r.NB_VP # Zero
                /\ ~(/\ r.NB_VP_RECHARGEABLES_EL = Whole(60)
                     /\ r.NB_VP_RECHARGEABLES_GAZ = Whole(50)
                     /\ r.NB_VP = Hundred)

\* the file held the row with a fleet of 0 (line 12), the row with 60 + 50 of
\* 100 (line 13) and a valid row, and only the valid row was returned
C1_Witness ==
    /\ Returned
    /\ CompleteInput
    /\ HasLine(12) /\ HasLine(13)
    /\ Len(result.rows) = 1

BannedExamples == {L_Forains, L_ND, L_NonIdentifie, L_NON_IDENTIFIEE, L_ParisND}

\* C2: no row of the returned table has a label whose normalized form is
\* empty, is NA, NAN or NONE, or fully matches the banned pattern; none is
\* labelled Forains, ND, Non identifie (accented), NON-IDENTIFIEE or Paris ND.
C2_NoBannedLabel ==
    Returned =>
        \A i \in DOMAIN result.rows :
            LET n == strip_accents_upper(result.rows[i].LIBGEO)
            IN  /\ n # <<>>
                /\ n \notin {<<"N","A">>, <<"N","A","N">>, <<"N","O","N","E">>}
                /\ ~BANNED_REGEX_fullmatch(n)
                /\ result.rows[i].LIBGEO \notin BannedExamples

\* rows labelled Forains (line 7) and Non identifie (line 9), both with valid
\* counts, were in the file with a valid row, and only that one was returned
C2_Witness ==
    /\ Returned
    /\ CompleteInput
    /\ HasLine(7) /\ HasLine(9)
    /\ Len(result.rows) = 1


\* the rows of a cleaned table as the pipeline takes them in again: dates and
\* counts that parse to the values they hold, labels as read
as_cells(rows) ==
    [i \in DOMAIN rows |->
        [rows[i] EXCEPT !.DATE_ARRETE = D(@.year, @.month, @.day),
                        !.LIBGEO = [isna |-> FALSE, s |-> @],
                        !.NB_VP_RECHARGEABLES_EL = NumCell(@),
                        !.NB_VP_RECHARGEABLES_GAZ = NumCell(@),
                        !.NB_VP = NumCell(@)]]

\* a cleaned table run through lines 80-134 again
reclean(rows) == clean_rows(as_cells(rows), Range(num_cols))

\* the same without the outlier step
reclean_no_outliers(rows) == clean_rows_no_outliers(as_cells(rows), Range(num_cols))

\* row r holds the largest PART_ELECTRIQUE of rows, and no other row holds it
IsUniqueMax(r, rows) ==
    /\ \A i \in DOMAIN rows : RatLe(rows[i].PART_ELECTRIQUE, r.PART_ELECTRIQUE)
    /\ Cardinality({i \in DOMAIN rows : rows[i].PART_ELECTRIQUE = r.PART_ELECTRIQUE}) = 1

\* C3 as stated: cleaning a cleaned table again yields the identical table.
C3_Idempotent == Returned => reclean(result.rows) = result.rows

\* C3 as amended: cleaning a cleaned table (of at most 200 rows) again changes
\* no value, and every step but the outlier step keeps every row; the outlier
\* step removes the row that alone holds the largest PART_ELECTRIQUE of a
\* table of two rows or more, and nothing else.
C3_IdempotentButOutliers ==
    Returned =>
        LET rows == result.rows
        IN  /\ Len(rows) <= 200
            /\ reclean_no_outliers(rows) = rows
            /\ reclean(rows) =
                   SelectRows(rows, LAMBDA r : ~(Len(rows) >= 2 /\ IsUniqueMax(r, rows)))

\* a cleaned table of two rows or more that loses a row when cleaned again
C3_Witness ==
    /\ Returned
    /\ Len(result.rows) >= 2
    /\ Len(reclean(result.rows)) < Len(result.rows)


\* the messages load_and_clean_data has shown
LoaderMessages == SelectSeq(st_errors, LAMBDA m : m.by = "load_and_clean_data")

\* the DataFrame of lines 58-78 for the input file
LectureDf == codgeo_astype_str(read_csv(csv))

\* the rows that reach the outlier step for the input file
Reaching == before_outliers(LectureDf.rows, LectureDf.columns)

\* the row with 100 electric, 0 other and 100 in total (line 1 of RowPool)
IsBoundaryRow(r) ==
    /\ r.NB_VP_RECHARGEABLES_EL = Hundred
    /\ r.NB_VP_RECHARGEABLES_GAZ = Zero
    /\ r.NB_VP = Hundred
    /\ r.LIBGEO = L_Paris1

\* the lines of RowPool with a valid date, a valid label and consistent whole
\* counts
ValidLines == {1, 2, 3, 4, 5, 6}

\* C4 as stated: the row with 100, 0 and 100 has PART_ELECTRIQUE = 100 in the
\* returned table, whatever other valid rows the file holds.
C4_BoundaryRetained ==
    (/\ pc = "done"
     /\ CompleteInput
     /\ HasLine(1)
     /\ \A k \in DOMAIN csv.lines : csv.lines[k] \in ValidLines)
    => /\ result.kind = "table"
       /\ \E i \in DOMAIN result.rows :
              /\ IsBoundaryRow(result.rows[i])
              /\ result.rows[i].PART_ELECTRIQUE = [num |-> 100, den |-> 1]

\* C4 as amended: the row gets PART_ELECTRIQUE = 100 and passes the NB_VP,
\* coherence and range filters (the upper bound is inclusive); it is in the
\* returned table when it is the only row that reaches the outlier step or when
\* another row that reaches it has rate 100 too (tables of at most 200 rows).
C4_BoundaryRetainedIfNotAlone ==
    (CompleteInput /\ HasLine(1)) =>
        /\ pc = "outliers" =>
               \E i \in DOMAIN df.rows :
                   /\ df.rows[i].NB_VP_RECHARGEABLES_EL = Hundred
                   /\ df.rows[i].NB_VP = Hundred
                   /\ df.rows[i].PART_ELECTRIQUE = [num |-> 100, den |-> 1]
        /\ pc = "done" =>
               /\ result.kind = "table"
               /\ Len(Reaching) <= 200
               /\ (\/ Len(Reaching) = 1
                   \/ Cardinality({i \in DOMAIN Reaching :
                          Reaching[i].PART_ELECTRIQUE = [num |-> 100, den |-> 1]}) >= 2)
                  => \E i \in DOMAIN result.rows :
                         /\ IsBoundaryRow(result.rows[i])
                         /\ result.rows[i].PART_ELECTRIQUE = [num |-> 100, den |-> 1]

\* the row was returned from a file that holds another row of rate 100 and a
\* row of a lower rate
C4_Witness ==
    /\ Returned
    /\ CompleteInput
    /\ HasLine(1) /\ HasLine(2) /\ HasLine(6)
    /\ \E i \in DOMAIN result.rows : IsBoundaryRow(result.rows[i])

\* the columns without which a statement of the try block raises KeyError
KeyFields == {"code", "label", "date"}

CleanColumns ==
    {"CODGEO", "LIBGEO", "DATE_ARRETE", "ANNEE", "TRIMESTRE", "NB_VP_RECHARGEABLES_EL",
     "NB_VP_RECHARGEABLES_GAZ", "NB_VP", "NB_RECHARGEABLES_TOTAL", "PART_ELECTRIQUE",
     "DEPARTEMENT"}

\* the positions of the try block and of its except clause: each has a step
LoaderSteps ==
    {"lecture", "dates", "numeriques", "filtre_vp", "indicateurs", "coherence",
     "taux", "outliers", "departement", "libelles", "return", "except"}

\* C6: load_and_clean_data returns nothing before its end, where it is at a
\* statement of the try block or in the except clause; it ends with None, after an exception and exactly one message of its
\* own, or with the table that every step of lines 80-134 has produced, after
\* no exception and no message.
C6_TableOrNone ==
    /\ pc # "done" =>
           /\ result = Pending
           /\ st_errors = <<>>
           /\ pc \in LoaderSteps
           /\ pc = "except" <=> exc # "none"
    /\ pc = "done" =>
           \/ /\ result = None
              /\ exc # "none"
              /\ LoaderMessages = <<LoaderDiagnostic(exc)>>
           \/ /\ result.kind = "table"
              /\ exc = "none"
              /\ LoaderMessages = <<>>
              /\ result.columns = CleanColumns
              /\ result.rows = clean_rows(LectureDf.rows, LectureDf.columns)
              /\ \A i \in DOMAIN result.rows :
                     DOMAIN result.rows[i] = CleanColumns \cup {"index"}

\* the date column was missing: rows had been read when the exception was
\* raised, and None was returned
C6_Witness ==
    /\ pc = "done"
    /\ result = None
    /\ exc = "KeyError: 'DATE_ARRETE'"
    /\ Len(df.rows) > 0
    /\ Len(st_errors) = 1

\* C7 as stated: when the file has the columns and no row survives, the result
\* is an empty table, nothing is raised and the percentile is not computed.
C7_EmptyNoPercentile ==
    (pc = "done" /\ CompleteInput /\ no_data(result)) =>
        /\ result.kind = "table"
        /\ exc = "none"
        /\ LoaderMessages = <<>>
        /\ ~p995.computed

\* C7 as amended: when the file has the columns and no row survives, the
\* result is an empty table and nothing is raised; the percentile is not
\* computed when no row reaches the outlier step (a file with only a header),
\* and is computed when rows reach it that the label filter removes afterwards.
C7_EmptyTable ==
    (pc = "done" /\ CompleteInput /\ no_data(result)) =>
        /\ result.kind = "table"
        /\ result.rows = <<>>
        /\ exc = "none"
        /\ LoaderMessages = <<>>
        /\ p995.computed <=> Reaching # <<>>
        /\ csv.lines = <<>> => ~p995.computed

\* a file with only a header gave an empty table
C7_Witness ==
    /\ Returned
    /\ CompleteInput
    /\ csv.lines = <<>>
    /\ result.rows = <<>>
    /\ ~p995.computed


\* the messages the calling script has shown
AppMessages == SelectSeq(st_errors, LAMBDA m : m.by = "app")

\* C8: the sidebar, the filtering and the tabs are reached only with a table
\* that has a row; when load_and_clean_data returned None or an empty table the
\* script shows its error and stops, and is nowhere else afterwards.
C8_StopOnNoData ==
    /\ app \in {"sidebar", "perimetre", "tabs", "rendered"} =>
           /\ pc = "done"
           /\ result.kind = "table"
           /\ result.rows # <<>>
    /\ app = "stopped" =>
           /\ pc = "done"
           /\ result.kind = "None" \/ result.rows = <<>>
           /\ Last(st_errors) = CallerError
    /\ (pc = "done" /\ (result.kind = "None" \/ result.rows = <<>>)) =>
           app \in {"load", "stopped"}

\* the script stopped on an empty table
C8_Witness ==
    /\ app = "stopped"
    /\ result.kind = "table"
    /\ result.rows = <<>>
    /\ Last(st_errors) = CallerError

\* C9: what the caller shows for an empty table differs from what it shows for
\* None.
C9_EmptyDistinguished ==
    (app = "stopped" /\ result.kind = "table") => AppMessages # caller_shows(None)

\* str.zfill(width)
RECURSIVE zfill(_, _)
zfill(s, width) == IF Len(s) >= width THEN s ELSE zfill(<<"0">> \o s, width)

\* C10: DEPARTEMENT is the first two characters of the geographic code padded
\* with zeros on the left to 5 characters: 01 for a code read as 1001, 75 for
\* 75056, 2A for 2A004, 97 for 97411.
C10_DepartementPadded ==
    Returned =>
        \A i \in DOMAIN result.rows :
            LET r == result.rows[i]
            IN  /\ r.DEPARTEMENT = SubSeq(zfill(r.CODGEO, 5), 1, 2)
                /\ r.CODGEO = G_75056 => r.DEPARTEMENT = <<"7","5">>
                /\ r.CODGEO = G_2A004 => r.DEPARTEMENT = <<"2","A">>
                /\ r.CODGEO = G_97411 => r.DEPARTEMENT = <<"9","7">>

\* the table load_and_clean_data gives for a readable file with the three key
\* columns, computed in one piece
table_of(file) ==
    LET d == codgeo_astype_str(read_csv(file))
    IN  clean_rows(d.rows, d.columns)

\* the same file with its header written as in the documentation
WithStdHeader(file) == [file EXCEPT !.header.form = "std"]

\* C11: the returned table does not depend on the case or the surrounding
\* whitespace of the column names: a file gives the same rows, with the same
\* CODGEO and DEPARTEMENT, as the file with the same lines under the header in
\* its documented spelling.
C11_HeaderIndependent ==
    (Returned /\ CompleteInput) => result.rows = table_of(WithStdHeader(csv))


\* C12: over the calls of load_and_clean_data of a session, one per run of the
\* script with the same path, the body of the function (the read and the
\* cleaning) is executed at most once, and every later call returns the table
\* of the first.
C12_ExecutedOnce ==
    /\ reads <= 1
    /\ \A i \in DOMAIN returned : returned[i] = returned[1]

C14_OneRowPerCommuneQuarter ==
    Returned =>
        \A i \in DOMAIN result.rows : \A j \in DOMAIN result.rows :
            (i # j) => ~(/\ result.rows[i].CODGEO = result.rows[j].CODGEO
                         /\ result.rows[i].TRIMESTRE = result.rows[j].TRIMESTRE)

\* the line of the file a row of the DataFrame was read from
LineOf(r) == RowPool[csv.lines[r.index + 1]]

\* the date of a line is no calendar date
BadDate(l) ==
    \/ l.date.kind = "text"
    \/ l.date.d > DaysInMonth(l.date.y, l.date.m)

\* the labels that stand for no municipality
PlaceholderLabels ==
    {L_Forains, L_ND, L_NonIdentifie, L_NON_IDENTIFIEE, L_ParisND,
     L_empty, L_na, L_blank}

\* the counts of a line are numbers that break an invariant of the table
BreaksInvariant(l) ==
    /\ l.vp.kind = "num" /\ l.el.kind = "num" /\ l.gaz.kind = "num"
    /\ \/ RatLe(l.vp.val, Zero)
       \/ RatLt(l.vp.val, RatAdd(l.el.val, l.gaz.val))
       \/ RatLt(RatAdd(l.el.val, l.gaz.val), Zero)

Quarter(y, q) == [year |-> y, quarter |-> q]

\* the quarter before p in the calendar
QuarterBefore(p) ==
    IF p.quarter = 1 THEN Quarter(p.year - 1, 4) ELSE Quarter(p.year, p.quarter - 1)

\* the script has filtered its tables
Filtered == app \in {"tabs", "rendered"}

\* C16: the previous quarter is the selected quarter minus one, across years:
\* Q2 2023 for Q3 2023 and Q4 2022 for Q1 2023; df_prev holds the rows of the
\* perimeter of exactly that quarter and no other row.
C16_PreviousQuarter ==
    /\ prev_period(Quarter(2023, 3)) = Quarter(2023, 2)
    /\ prev_period(Quarter(2023, 1)) = Quarter(2022, 4)
    /\ Filtered =>
           /\ \A i \in DOMAIN df_prev :
                  df_prev[i].TRIMESTRE = QuarterBefore(sel.selected_period)
           /\ df_prev =
                  SelectRows(result.rows,
                             LAMBDA r : /\ r.TRIMESTRE = QuarterBefore(sel.selected_period)
                                        /\ r.DEPARTEMENT \in sel.filtered_departements
                                        /\ RatLe(Whole(sel.min_vehicles), r.NB_VP))

\* the first quarter of 2023 is selected and df_prev holds rows of 2022
C16_Witness ==
    /\ Filtered
    /\ sel.selected_period = Quarter(2023, 1)
    /\ df_prev # <<>>
    /\ \A i \in DOMAIN df_prev : df_prev[i].TRIMESTRE = Quarter(2022, 4)

\* C17: once load_and_clean_data has returned the table, the script never
\* alters it: the sidebar, the filtering of df_current and df_prev and the
\* tabs with df_map and df_hist leave every row and value of df as returned.
C17_BaseTableUnchanged ==
    [][(app \in {"sidebar", "perimetre", "tabs"}) => (result' = result)]_vars

\* the page is rendered with a df_current that left rows of the table out,
\* and the table is the one that was returned
C17_Witness ==
    /\ app = "rendered"
    /\ df_current # <<>>
    /\ Len(df_current) < Len(result.rows)
    /\ Len(df_hist) < Len(result.rows)
    /\ result = returned[Len(returned)]

\* C18: df_current is exactly the rows of the table whose TRIMESTRE is the
\* selected period, whose DEPARTEMENT is in the filtered list and whose NB_VP is
\* at least min_vehicles, in the order of the table.
C18_CurrentPerimeter ==
    Filtered =>
        df_current =
            SelectRows(result.rows,
                       LAMBDA r : /\ r.TRIMESTRE = sel.selected_period
                                  /\ r.DEPARTEMENT \in sel.filtered_departements
                                  /\ RatLe(Whole(sel.min_vehicles), r.NB_VP))

\* the user chose departments and a threshold; df_current holds a row, a row of
\* the selected quarter is left out for its department and one for its fleet
C18_Witness ==
    /\ Filtered
    /\ widgets.set
    /\ df_current # <<>>
    /\ \E i \in DOMAIN result.rows :
           /\ result.rows[i].TRIMESTRE = sel.selected_period
           /\ result.rows[i].DEPARTEMENT \notin sel.filtered_departements
    /\ \E i \in DOMAIN result.rows :
           /\ result.rows[i].TRIMESTRE = sel.selected_period
           /\ result.rows[i].DEPARTEMENT \in sel.filtered_departements
           /\ RatLt(result.rows[i].NB_VP, Whole(sel.min_vehicles))

\* the count a cell of a line is converted to
Coerced(cell) == IF cell.kind = "num" THEN cell.val ELSE Zero

\* a line with an unparseable electric or hybrid count
BadPartCount(l) == l.el.kind = "text" \/ l.gaz.kind = "text"

\* the other fields of the line are valid: a date, a label of a municipality,
\* a positive total that the two counts (0 for an unparseable one) do not exceed
OtherwiseValid(l) ==
    /\ ~BadDate(l)
    /\ l.label \notin PlaceholderLabels
    /\ l.vp.kind = "num" /\ RatLt(Zero, l.vp.val)
    /\ RatLe(Zero, Coerced(l.el)) /\ RatLe(Zero, Coerced(l.gaz))
    /\ RatLe(RatAdd(Coerced(l.el), Coerced(l.gaz)), l.vp.val)

\* the DataFrame of load_and_clean_data after the NB_VP filter
PastFiltreVP ==
    pc \in {"indicateurs", "coherence", "taux", "outliers", "departement",
            "libelles", "return"}

\* the row read from line k of the file is in rows
HasRowOfLine(rows, k) == \E i \in DOMAIN rows : rows[i].index = k - 1

\* when the NB_VP filter is about to run every unparseable count is 0, and
\* after it no row with an unparseable total is left
CountsCoerced ==
    /\ (CompleteInput /\ pc = "filtre_vp") =>
           \A i \in DOMAIN df.rows :
               LET l == LineOf(df.rows[i])
               IN  /\ df.rows[i].NB_VP = Coerced(l.vp)
                   /\ df.rows[i].NB_VP_RECHARGEABLES_EL = Coerced(l.el)
                   /\ df.rows[i].NB_VP_RECHARGEABLES_GAZ = Coerced(l.gaz)
    /\ (CompleteInput /\ PastFiltreVP) =>
           \A i \in DOMAIN df.rows : LineOf(df.rows[i]).vp.kind # "text"
    /\ (CompleteInput /\ Returned) =>
           \A i \in DOMAIN result.rows :
               LET l == LineOf(result.rows[i])
               IN  /\ l.vp.kind # "text"
                   /\ result.rows[i].NB_VP_RECHARGEABLES_EL = Coerced(l.el)
                   /\ result.rows[i].NB_VP_RECHARGEABLES_GAZ = Coerced(l.gaz)

\* C19 as stated: an unparseable count is replaced by 0 before the filters run;
\* a row with an unparseable total is dropped by the NB_VP filter, and a row
\* with an unparseable electric or hybrid count and valid other fields is in
\* the returned table with that count at 0.
C19_UnparseableCountIsZero ==
    /\ CountsCoerced
    /\ (CompleteInput /\ Returned) =>
           \A k \in DOMAIN csv.lines :
               LET l == RowPool[csv.lines[k]]
               IN  (BadPartCount(l) /\ OtherwiseValid(l)) => HasRowOfLine(result.rows, k)

\* C19 as amended: the same, but the row with an unparseable electric or hybrid
\* count and valid other fields is kept up to the outlier step, and is in the
\* returned table unless its rate is above the percentile of that step.
C19_UnparseableCountIsZeroButOutliers ==
    /\ CountsCoerced
    /\ (CompleteInput /\ pc = "outliers") =>
           \A k \in DOMAIN csv.lines :
               LET l == RowPool[csv.lines[k]]
               IN  (BadPartCount(l) /\ OtherwiseValid(l)) => HasRowOfLine(df.rows, k)
    /\ (CompleteInput /\ Returned) =>
           \A k \in DOMAIN csv.lines :
               LET l == RowPool[csv.lines[k]]
                   rate == RatMul(RatDiv(RatAdd(Coerced(l.el), Coerced(l.gaz)),
                                         l.vp.val), Hundred)
               IN  (BadPartCount(l) /\ OtherwiseValid(l)) =>
                       (HasRowOfLine(result.rows, k) <=> RatLe(rate, p995.value))

\* a file with a row of an unparseable total and a row of an unparseable
\* electric count gave a table with the second row, its electric count at 0
C19_Witness ==
    /\ Returned
    /\ \E k \in DOMAIN csv.lines : RowPool[csv.lines[k]].vp.kind = "text"
    /\ \E i \in DOMAIN result.rows :
           /\ LineOf(result.rows[i]).el.kind = "text"
           /\ result.rows[i].NB_VP_RECHARGEABLES_EL = Zero

\* C20: the outlier step, on a non-empty table, computes the 99.5th percentile
\* of PART_ELECTRIQUE over the rows that reach it, removes exactly the rows
\* strictly above it and keeps the others in their order; on an empty table it
\* computes nothing and removes nothing.
C20_OutlierStep ==
    [][(pc = "outliers") =>
          IF df.rows = <<>>
          THEN /\ df'.rows = <<>>
               /\ ~p995'.computed
          ELSE /\ p995' = [computed |-> TRUE, value |-> quantile(rates(df.rows))]
               /\ df'.rows =
                      SelectRows(df.rows,
                                 LAMBDA r : ~RatLt(quantile(rates(df.rows)),
                                                   r.PART_ELECTRIQUE))
               /\ df'.columns = df.columns]_vars

\* the outlier step has run on valid rows and removed one of them
C20_Witness ==
    /\ pc = "departement"
    /\ p995.computed
    /\ df.rows # <<>>
    /\ \A k \in DOMAIN csv.lines : csv.lines[k] \in ValidLines
    /\ \E k \in DOMAIN csv.lines : ~HasRowOfLine(df.rows, k)
    /\ \A i \in DOMAIN df.rows : RatLe(df.rows[i].PART_ELECTRIQUE, p995.value)

\* w occurs in s, and is not the whole of s
IsProperSubstring(w, s) ==
    /\ Len(w) < Len(s)
    /\ \E a \in 1..(Len(s) - Len(w) + 1) : SubSeq(s, a, a + Len(w) - 1) = w

\* the labels of the claim, each with a banned token inside its normalized form
SubstringExamples == {L_Lucciana, L_Paris1}

\* C21: the banned-label test is a full match on the normalized label: the
\* labels Lucciana (which holds NA) and Paris 1er Arrondissement (which holds
\* ND) hold a banned token as a proper substring only, and the label filter
\* keeps every row that carries one of them.
C21_FullMatchOnly ==
    [][(pc = "libelles") =>
          \A i \in DOMAIN df.rows :
              (df.rows[i].LIBGEO.s \in SubstringExamples) =>
                  LET n == strip_accents_upper(df.rows[i].LIBGEO.s)
                  IN  /\ \/ IsProperSubstring(<<"N","D">>, n)
                         \/ IsProperSubstring(<<"N","A">>, n)
                      /\ ~BANNED_REGEX_fullmatch(n)
                      /\ HasRowOfLine(df'.rows, df.rows[i].index + 1)]_vars

\* the label filter has run and left a row labelled Lucciana and a row
\* labelled Paris 1er Arrondissement
C21_Witness ==
    /\ pc = "return"
    /\ \E i \in DOMAIN df.rows : df.rows[i].LIBGEO = L_Lucciana
    /\ \E i \in DOMAIN df.rows : df.rows[i].LIBGEO = L_Paris1

\* every character of s is whitespace
AllSpace(s) == \A k \in DOMAIN s : IsSpace(s[k])

\* t is s without its leading and trailing whitespace, character for character
IsStripped(t, s) ==
    /\ t = <<>> \/ (~IsSpace(t[1]) /\ ~IsSpace(t[Len(t)]))
    /\ \E a \in 0..Len(s) :
           /\ a + Len(t) <= Len(s)
           /\ AllSpace(SubSeq(s, 1, a))
           /\ SubSeq(s, a + 1, a + Len(t)) = t
           /\ AllSpace(SubSeq(s, a + Len(t) + 1, Len(s)))

\* C22: in every returned row LIBGEO is the label of the input line with its
\* casing and accents, only the surrounding whitespace removed, and the table
\* has no column LIBGEO_NORM.
C22_LabelPreserved ==
    (CompleteInput /\ Returned) =>
        /\ "LIBGEO_NORM" \notin result.columns
        /\ \A i \in DOMAIN result.rows :
               /\ "LIBGEO_NORM" \notin DOMAIN result.rows[i]
               /\ IsStripped(result.rows[i].LIBGEO, LineOf(result.rows[i]).label)

\* a table with the accented label of line 4 as written and the label of
\* line 3 without its surrounding spaces
C22_Witness ==
    /\ Returned
    /\ \E i \in DOMAIN result.rows : result.rows[i].LIBGEO = L_Eze
    /\ \E i \in DOMAIN result.rows :
           /\ LineOf(result.rows[i]).label = L_LyonPadded
           /\ result.rows[i].LIBGEO = <<"L","y","o","n">>

\* the order of the reads of a path
PathOrder ==
    << <<"path", "semicolon_utf8">>, <<"path", "comma_utf8">>,
       <<"path", "semicolon_latin1">> >>

\* C23: load_data(path) reads with (';', utf-8), (',', utf-8), (';', latin-1)
\* in that order, each only after the one before has raised; it returns the
\* table of the first read that does not raise, and raises 'Impossible de lire
\* le fichier' only when the three reads raised or when neither path nor url
\* is given.
C23_ReadsInOrder ==
    (ld.pc # "idle" /\ (Truthy(ld.path) \/ ~Truthy(ld.url))) =>
        /\ Len(ld.attempts) <= 3
        /\ ld.attempts = SubSeq(PathOrder, 1, Len(ld.attempts))
        /\ \A k \in 1..(Len(ld.attempts) - 1) : ld.reads[ld.attempts[k][2]] # "ok"
        /\ ld.pc = "done" =>
               /\ ld.attempts # <<>>
               /\ ld.reads[ld.attempts[Len(ld.attempts)][2]] = "ok"
               /\ ld.outcome = TableRead("path", ld.attempts[Len(ld.attempts)][2])
        /\ ld.pc = "raised" =>
               /\ ld.outcome.kind = "Exception"
               /\ ld.outcome.text = "Impossible de lire le fichier: "
               /\ \/ /\ ld.attempts = PathOrder
                     /\ \A c \in Combos : ld.reads[c] # "ok"
                  \/ /\ ld.attempts = <<>>
                     /\ ~Truthy(ld.path) /\ ~Truthy(ld.url)

\* the first two reads raised and the table of the third was returned
C23_Witness ==
    /\ ld.pc = "done"
    /\ ld.attempts = PathOrder
    /\ ld.outcome = TableRead("path", "semicolon_latin1")

\* the code of a municipality of an overseas department
IsOverseasCode(codgeo) ==
    \E d \in {<<"9","7","1">>, <<"9","7","2">>, <<"9","7","3">>, <<"9","7","4">>,
              <<"9","7","6">>} : IsPrefix(d, codgeo)

\* C24: with the toggle 'Exclure DOM-TOM' on, df_current and df_prev hold no
\* row of a municipality whose code starts with 971, 972, 973, 974 or 976,
\* whether Tous or departments are selected.
C24_OverseasExcluded ==
    (Filtered /\ sel.exclude_domtom) =>
        /\ \A i \in DOMAIN df_current : ~IsOverseasCode(df_current[i].CODGEO)
        /\ \A i \in DOMAIN df_prev : ~IsOverseasCode(df_prev[i].CODGEO)

\* row r holds the smallest PART_ELECTRIQUE of rows
IsMinRate(r, rows) ==
    \A j \in DOMAIN rows : RatLe(r.PART_ELECTRIQUE, rows[j].PART_ELECTRIQUE)

\* C25: the outlier step never empties a table: when a row reaches it, every
\* row with the smallest PART_ELECTRIQUE is kept, so at least one row is left.
C25_OutlierStepKeepsMinimum ==
    [][(pc = "outliers" /\ df.rows # <<>>) =>
          /\ df'.rows # <<>>
          /\ \A i \in DOMAIN df.rows :
                 IsMinRate(df.rows[i], df.rows) =>
                     \E j \in DOMAIN df'.rows : df'.rows[j] = df.rows[i]]_vars

\* two valid rows reached the outlier step, which kept the one row with the
\* smallest rate, below the percentile
C25_Witness ==
    /\ pc = "departement"
    /\ Len(csv.lines) = 2
    /\ \A k \in DOMAIN csv.lines : csv.lines[k] \in ValidLines
    /\ Len(df.rows) = 1
    /\ RatLt(df.rows[1].PART_ELECTRIQUE, p995.value)

(***************************************************************************)
(* The indicators of the page.                                             *)
(***************************************************************************)
\* C27: for every filter selection over a cleaned table, the weighted
\* adoption rate of the indicators lies between 0 and 100, bounds included.
C27_WeightedRateInRange ==
    kpi.computed =>
        /\ RatLe(Zero, kpi.weighted_rate)
        /\ RatLe(kpi.weighted_rate, Hundred)

\* the indicators are computed over two rows or more and the rate is neither
\* of the bounds
C27_Witness ==
    /\ kpi.computed
    /\ widgets.set
    /\ Len(df_current) >= 2
    /\ RatLt(Zero, kpi.weighted_rate)
    /\ RatLt(kpi.weighted_rate, Hundred)

\* the sum of a column over the rows up to the n-th
RECURSIVE SumTo(_, _, _)
SumTo(rows, col, n) ==
    IF n = 0 THEN Zero ELSE RatAdd(SumTo(rows, col, n - 1), rows[n][col])

\* the whole part of q >= 0
WholePart(q) ==
    CHOOSE k \in 0..q.num : k * q.den <= q.num /\ q.num < (k + 1) * q.den

\* the total of a column as the indicators show it
Total(rows, col) == WholePart(SumTo(rows, col, Len(rows)))

\* 100 * (ev / vp - pev / pvp) as one fraction, the first term 0 when vp = 0
RateDifference(ev, vp, pev, pvp) ==
    IF vp > 0
    THEN Rat(100 * (ev * pvp - pev * vp), vp * pvp)
    ELSE Rat(-(100 * pev), pvp)

\* C28: delta_pp_value is None exactly when df_prev is empty; when df_prev has
\* a row, its total NB_VP is positive and delta_pp_value is the weighted rate
\* of df_current less that of df_prev.
C28_DeltaNoneIffNoPreviousRow ==
    kpi.computed =>
        /\ (kpi.delta_pp_value.kind = "None") <=> (df_prev = <<>>)
        /\ df_prev # <<>> =>
              /\ RatLt(Zero, SumTo(df_prev, "NB_VP", Len(df_prev)))
              /\ kpi.delta_pp_value.kind = "float"
              /\ kpi.delta_pp_value.val =
                     RateDifference(Total(df_current, "NB_RECHARGEABLES_TOTAL"),
                                    Total(df_current, "NB_VP"),
                                    Total(df_prev, "NB_RECHARGEABLES_TOTAL"),
                                    Total(df_prev, "NB_VP"))

(***************************************************************************)
(* The sliders of the page.                                                *)
(***************************************************************************)
Consistent(s) == s.min_value <= s.value /\ s.value <= s.max_value

\* C29: the slider of the minimum fleet size is always created with its
\* default value 100 between its minimum 0 and its maximum int(max NB_VP).
C29_FleetSliderConsistent ==
    \A i \in DOMAIN sliders :
        sliders[i].name = "min_vehicles" => Consistent(sliders[i])

\* C30: the slider 'Nombre de communes' of the communes of a department is
\* always created with min_value <= value <= max_value.
C30_CommunesSliderConsistent ==
    \A i \in DOMAIN sliders :
        sliders[i].name = "communes_topn" => Consistent(sliders[i])

====
